---- MODULE Spec2Model ----
(***************************************************************************)
(* Model of clippy_lints/src/unconditional_recursion.rs: the late lint     *)
(* pass UnconditionalRecursion.  The state is the pass object (its         *)
(* default_impl_for_type map) together with the diagnostics emitted and    *)
(* the position of the driver that calls check_fn once per function.       *)
(* Everything the pass obtains from rustc queries (types, resolutions,     *)
(* the returns collected by ReturnsVisitor) is an input field of the       *)
(* function or impl descriptor it is queried for.                          *)
(***************************************************************************)
EXTENDS Naturals, Sequences, FiniteSets, TLC

\* ------------------------------------------------------------------ bounds
MaxReturns == 2   \* exit points collected per body
MaxCalls   == 2   \* call expressions in a body scanned by CheckCalls
MaxImpls   == 2   \* `Default` implementations in the crate
MaxFns     == 2   \* functions the driver hands to check_fn in one run

\* --------------------------------------------------------------- universes
None == "None"

\* DefIds of nominal types (ty::Adt / ty::Foreign).
TypeIds == {"T", "U"}
\* DefIds of traits.
Traits == {"PartialEq", "ToString", "Default", "Other"}
TraitOpt == Traits \cup {None}
DefOpt == TypeIds \cup Traits \cup {None}

\* DefIds of functions.  A path or method-call resolution recorded by typeck
\* names an associated function of an inherent impl or the declaration of an
\* associated function in a trait; functions written inside `impl Trait for`
\* blocks and free functions have DefIds of their own.
InherentFnIds == {"T::new", "U::make"}
TraitItemIds  == {"Tr::item"}
TraitImplFnIds == {"impl_Tr::f"}
FreeFnIds == {"free_fn"}
CallTargets == InherentFnIds \cup TraitItemIds

Names == {"eq", "ne", "to_string", "new", "default"}

HirIds == 1 .. MaxReturns

\* ------------------------------------------------------------ descriptors
\* rustc_middle::ty::Ty after peel_refs, as far as get_ty_def_id looks at it.
Tys == {[kind |-> "Adt", did |-> "T"], [kind |-> "Foreign", did |-> "U"],
        [kind |-> "Other", did |-> None]}
TyT == [kind |-> "Adt", did |-> "T"]
NoTy == [kind |-> "NoTy", did |-> None]
\* Option<Ty> as returned by expr_ty_opt.
TysOpt == Tys \cup {NoTy}

\* rustc_hir::Ty as far as get_hir_ty_def_id looks at it.
HirTys == {[kind |-> "Path", qpath |-> "Resolved", res |-> d, proj |-> None, self_alias |-> FALSE]
              : d \in TypeIds \cup {None}}
     \cup {[kind |-> "Path", qpath |-> "Resolved", res |-> None, proj |-> None, self_alias |-> TRUE]}
     \cup {[kind |-> "Path", qpath |-> "TypeRelative", res |-> None, proj |-> p, self_alias |-> FALSE]
              : p \in {"Other", None}}
     \cup {[kind |-> "Path", qpath |-> "LangItem", res |-> None, proj |-> None, self_alias |-> FALSE],
           [kind |-> "Ref", qpath |-> None, res |-> None, proj |-> None, self_alias |-> FALSE]}
HirTyOf(d) == [kind |-> "Path", qpath |-> "Resolved", res |-> d, proj |-> None, self_alias |-> FALSE]
\* `Self` inside an impl: Res::SelfTyAlias, which has no DefId of its own.
HirSelf == [kind |-> "Path", qpath |-> "Resolved", res |-> None, proj |-> None, self_alias |-> TRUE]

\* ------------------------------------------------------- pure helpers
get_ty_def_id(ty) ==
    CASE ty.kind = "Adt" -> ty.did
      [] ty.kind = "Foreign" -> ty.did
      [] OTHER -> None

get_hir_ty_def_id(hir_ty) ==
    IF hir_ty.kind # "Path" THEN None
    ELSE CASE hir_ty.qpath = "Resolved" -> hir_ty.res
           [] hir_ty.qpath = "TypeRelative" -> hir_ty.proj
           [] OTHER -> None

\* get_trait_def_id(cx, path): the registry resolves a well-known path to the
\* trait's DefId when the crate graph has it.
get_trait_def_id(resolved, path) == IF path \in resolved THEN path ELSE None

\* --------------------------------------------------- expressions and bodies
\* The candidate expression `expr_or_init(cx, body.value).peel_blocks()` of a
\* function, with what typeck recorded for it.  callee_trait is
\* trait_of_item(type_dependent_def_id(expr)) for a method call, None when
\* either lookup fails.
MkExpr(k, op, l, r, seg, n, tr) ==
    [hir_id |-> 1, kind |-> k, op |-> op, left_ty |-> l, right_ty |-> r,
     seg |-> seg, nargs |-> n, callee_trait |-> tr]
OtherExpr == MkExpr("Other", None, NoTy, NoTy, None, 0, None)
BinaryExprs == {MkExpr("Binary", op, l, r, None, 0, None)
                  : op \in {"Eq", "Ne"}, l \in TysOpt, r \in TysOpt}
\* Number of arguments (receiver excluded) a method of a well-known trait takes.
Arity(tr, seg) ==
    CASE tr = "PartialEq" /\ seg \in {"eq", "ne"} -> {1}
      [] tr = "ToString" /\ seg = "to_string" -> {0}
      [] tr \in {"PartialEq", "ToString"} -> {}
      [] OTHER -> {0, 1, 2}
\* Method calls that type-check: a call resolved to a method of a well-known
\* trait passes the arguments that method takes.
MethodCallExprs(segs, traits) ==
    UNION {{MkExpr("MethodCall", None, NoTy, NoTy, seg, n, tr) : n \in Arity(tr, seg)}
           : seg \in segs, tr \in traits}

\* Exit points as ReturnsVisitor collects them, by HirId.  Id 1 is the
\* candidate expression; a body without exit points has no tail expression
\* left after peeling, so its candidate is the block itself.
RECURSIVE AscendingSeqs(_)
AscendingSeqs(S) ==
    IF S = {} THEN {<<>>}
    ELSE LET x == CHOOSE y \in S : \A z \in S : y <= z
             rest == AscendingSeqs(S \ {x})
         IN rest \cup {<<x>> \o s : s \in rest}
Returns == AscendingSeqs(HirIds)

\* A call expression met by CheckCalls: the callee path and what
\* path_def_id / trait_of_item say about it.
MkCallee(q, nsegs, last, first, ty, tr) ==
    [qpath |-> q, nsegs |-> nsegs, last |-> last, first_res |-> first,
     ty |-> ty, target_trait |-> tr]
Callees ==
    { MkCallee("TypeRelative", 2, "default", None, HirSelf, "Default"),      \* Self::default()
      MkCallee("TypeRelative", 2, "default", None, HirTyOf("T"), "Default"), \* T::default()
      MkCallee("TypeRelative", 2, "default", None, HirTyOf("U"), "Default"), \* U::default()
      MkCallee("Resolved", 2, "default", "Default", HirTyOf(None), "Default"), \* Default::default()
      MkCallee("TypeRelative", 2, "new", None, HirTyOf("T"), None),          \* T::new()
      MkCallee("TypeRelative", 2, "default", None, HirSelf, None),           \* Self::default(), no trait item
      MkCallee("Resolved", 2, "default", "T", HirTyOf(None), None),          \* T::default(..), a variant
      MkCallee("Resolved", 1, "default", None, HirTyOf(None), "Default") }   \* default(), imported
SelfDefaultCall == MkCallee("TypeRelative", 2, "default", None, HirSelf, "Default")

\* The call expressions of a body in visiting (pre-)order; parent = 0 for a
\* call that no other call encloses, else the index of the enclosing call.
\* A call of Default::default takes no argument, so a call it encloses sits
\* in a const argument of its callee path.  That is another body: the typeck
\* results behind self.cx, which path_def_id reads, hold no type-dependent
\* definition for it, so a type-relative callee there names no trait item.
InTypeckResults(t) ==
    \A i \in 1 .. Len(t) :
        (t[i].parent # 0 /\ t[t[i].parent].callee.target_trait = "Default"
            /\ t[i].callee.qpath = "TypeRelative")
        => t[i].callee.target_trait = None
CallTrees ==
    UNION {{ t \in [1 .. n -> [parent : 0 .. n, callee : Callees]]
               : (\A i \in 1 .. n : t[i].parent < i) /\ InTypeckResults(t) }
           : n \in 0 .. MaxCalls}

\* ------------------------------------------------------------- functions
\* The HIR parent of a function: an `impl` item (with its attributes, the
\* trait it implements and its self type), a trait declaration, or anything
\* else (module, enclosing expression).
MkParent(node, derived, of_trait, self_ty) ==
    [node |-> node, derived |-> derived, of_trait |-> of_trait, self_ty |-> self_ty]
TraitDecl == MkParent("Trait", FALSE, None, HirTyOf(None))
NoImpl == MkParent("Other", FALSE, None, HirTyOf(None))
ImplSelfTys == {h \in HirTys : ~h.self_alias}

\* One function as check_fn receives it.  returns lists the exit points by
\* HirId, expr is the candidate expression, other_exit describes the exit
\* points that are not the candidate, calls are the calls of the body.
MkFn(kind, name, def_id, implicit_self, inputs, parent, shape, calls) ==
    [kind |-> kind, name |-> name, def_id |-> def_id, implicit_self |-> implicit_self,
     inputs |-> inputs, parent |-> parent, returns |-> shape[1], expr |-> shape[2],
     other_exit |-> shape[3], calls |-> calls]

\* DefId of a function by where it is written.
DefIdsIn(parent) ==
    CASE parent.node = "Impl" /\ parent.of_trait = None -> InherentFnIds
      [] parent.node = "Impl" -> TraitImplFnIds
      [] parent.node = "Trait" -> TraitItemIds
      [] OTHER -> FreeFnIds

\* A body without exit points has the block itself as candidate expression.
\* <<returns, candidate, other exits>>.  Where an exit point other than the
\* candidate is of interest (say `return self == other;`), the candidate is
\* the enclosing block or `return` expression.
BodyShapes(exprs, others) ==
    {<<r, e, OtherExpr>> : r \in Returns \ {<<>>}, e \in exprs \cup {OtherExpr}}
    \cup {<<(<<>>), OtherExpr, OtherExpr>>}
    \cup {<<r, OtherExpr, o>> : r \in {q \in Returns : \E i \in 1 .. Len(q) : q[i] # 1}, o \in others}
Plain(r) == <<r, OtherExpr, OtherExpr>>

\* Functions named eq / ne, in and outside implementations of PartialEq.
EqParents ==
    {MkParent("Impl", d, "PartialEq", HirTyOf("T")) : d \in BOOLEAN}
    \cup {MkParent("Impl", FALSE, "Other", HirTyOf("T")),
          MkParent("Impl", FALSE, None, HirTyOf("T")), TraitDecl}
EqInputs ==
    {<<a, b>> : a \in {TyT}, b \in Tys} \cup {<<a, a>> : a \in Tys} \cup {<<TyT>>}
EqFns ==
    {MkFn("Method", name, CHOOSE d \in DefIdsIn(p) : TRUE, TRUE, ins, p, b, <<>>)
        : name \in {"eq", "ne"}, p \in EqParents, ins \in EqInputs,
          b \in BodyShapes(BinaryExprs
                             \cup MethodCallExprs({"eq", "ne"}, {"PartialEq", "Other", None}),
                           {MkExpr("Binary", op, TyT, TyT, None, 0, None) : op \in {"Eq", "Ne"}})}

\* Functions named to_string, in and outside implementations of ToString.
ToStringParents ==
    {MkParent("Impl", d, "ToString", HirTyOf("T")) : d \in BOOLEAN}
    \cup {MkParent("Impl", FALSE, "Other", HirTyOf("T")),
          MkParent("Impl", FALSE, None, HirTyOf("T")), TraitDecl}
ToStringFns ==
    {MkFn("Method", "to_string", CHOOSE d \in DefIdsIn(p) : TRUE, TRUE, ins, p, b, <<>>)
        : p \in ToStringParents, ins \in {<<TyT>>, <<TyT, TyT>>},
          b \in BodyShapes(MethodCallExprs({"to_string", "eq"}, {"ToString", "Other", None})
                             \cup {MkExpr("Binary", "Eq", TyT, TyT, None, 0, None)},
                           {MkExpr("MethodCall", None, NoTy, NoTy, "to_string", 0, "ToString")})}

\* Functions without a `self` shorthand: associated functions of inherent
\* impls on any self type, of Default impls, of other traits, provided trait
\* functions, free functions and closures; and two with `self`.
StaticParents ==
    {MkParent("Impl", FALSE, None, h) : h \in ImplSelfTys}
    \cup {MkParent("Impl", d, tr, HirTyOf("T")) : d \in BOOLEAN, tr \in {"Default", "PartialEq"}}
    \cup {MkParent("Impl", TRUE, None, HirTyOf("T")), TraitDecl, NoImpl}
StaticFn(p, d, r, t) ==
    MkFn(IF p = NoImpl THEN "ItemFn" ELSE "Method",
         IF p.of_trait = "Default" THEN "default"
         ELSE IF p.of_trait = "PartialEq" THEN "eq" ELSE "new",
         d, FALSE, IF p.of_trait = "PartialEq" THEN <<TyT, TyT>> ELSE <<>>,
         p, Plain(r), t)
\* `T::new(Self::default())` and `Self::default(); Self::default()`.
NestedDefaultCalls ==
    <<[parent |-> 0, callee |-> MkCallee("TypeRelative", 2, "new", None, HirTyOf("T"), None)],
      [parent |-> 1, callee |-> SelfDefaultCall]>>
TwoDefaultCalls ==
    <<[parent |-> 0, callee |-> SelfDefaultCall], [parent |-> 0, callee |-> SelfDefaultCall]>>
\* Every parent with a few bodies, and the inherent impls of T and U with
\* every body.
StaticFns ==
    UNION {{StaticFn(p, d, r, t)
              : d \in DefIdsIn(p), r \in Returns,
                t \in {<<>>, <<[parent |-> 0, callee |-> SelfDefaultCall]>>,
                       NestedDefaultCalls, TwoDefaultCalls}}
           : p \in StaticParents}
    \cup UNION {{StaticFn(p, d, r, t) : d \in DefIdsIn(p), r \in {<<>>, <<1>>}, t \in CallTrees}
                : p \in {MkParent("Impl", FALSE, None, HirTyOf(ty)) : ty \in TypeIds}}
SelfFns ==
    {MkFn(k, "new", d, TRUE, <<TyT>>, MkParent("Impl", FALSE, None, HirTyOf("T")),
          Plain(<<1>>), <<[parent |-> 0, callee |-> SelfDefaultCall]>>)
        : k \in {"Method", "Closure"}, d \in InherentFnIds}

Fns == EqFns \cup ToStringFns \cup StaticFns \cup SelfFns

\* --------------------------------------------- the crate's Default impls
\* An exit point of a `default` body: a direct call whose callee typeck
\* resolved to `target` (None: no type-dependent resolution), or anything else.
ExitExprs == {[kind |-> "Call", target |-> t] : t \in CallTargets \cup {None}}
        \cup {[kind |-> "Other", target |-> None]}
\* One `impl Default for ..` as trait_impls_of lists it.  ty is ty.def() of
\* the key it is filed under; has_fn says a local `default` function with a
\* body was found.
MkImpl(ty, derived, has_fn, returns) ==
    [ty |-> ty, derived |-> derived, has_fn |-> has_fn, returns |-> returns]
CallTo(f) == [kind |-> "Call", target |-> f]
\* A hand-written impl whose `default` body is the single call `f()`.
DelegatingImpl(ty, f) == MkImpl(ty, FALSE, TRUE, <<CallTo(f)>>)
\* The delegating impls, and impls that miss one condition of the scan each.
DefaultImpls ==
    {DelegatingImpl(ty, f) : ty \in TypeIds, f \in CallTargets}
    \cup {MkImpl("T", TRUE, TRUE, <<CallTo(f)>>) : f \in CallTargets}
    \cup {MkImpl(None, FALSE, TRUE, <<CallTo("T::new")>>),
          MkImpl("T", FALSE, FALSE, <<>>),
          MkImpl("T", FALSE, TRUE, <<>>),
          MkImpl("T", FALSE, TRUE, <<[kind |-> "Other", target |-> None]>>),
          MkImpl("T", FALSE, TRUE, <<CallTo(None)>>)}
    \cup {MkImpl("T", FALSE, TRUE, [i \in 1 .. n |-> CallTo("T::new")]) : n \in 2 .. MaxReturns}
RECURSIVE SeqsUpTo(_, _)
SeqsUpTo(S, n) ==
    IF n = 0 THEN {<<>>}
    ELSE LET shorter == SeqsUpTo(S, n - 1)
         IN shorter \cup {Append(q, x) : q \in {r \in shorter : Len(r) = n - 1}, x \in S}

\* What the pass sees of the crate: which well-known trait paths resolve,
\* and the implementations of Default in iteration order.
MkCx(resolved, impls) == [resolved |-> resolved, default_impls |-> impls]
WellKnown == {"PartialEq", "ToString", "Default"}

\* ------------------------------------------------------------ diagnostics
\* span_error: primary span = the function's span (one per DefId and body
\* version), note span = the span of the recursive call expression.
span_error(method_span, expr_id) == [primary |-> method_span, note |-> expr_id]
\* A function's span and the HirId of the i-th call of its body.
SpanOf(m) == m.def_id
CallHirId(i) == MaxReturns + i

\* ------------------------------------------------------------ the checks
\* Mutant: only the first exit point is compared with the candidate.
has_conditional_return_first_only(returns, expr) ==
    CASE Len(returns) = 0 -> FALSE
      [] OTHER -> returns[1] # expr.hir_id
\* Mutant: a single exit point is never compared with the candidate.
has_conditional_return_count_only(returns, expr) ==
    CASE Len(returns) = 0 -> FALSE
      [] Len(returns) = 1 -> FALSE
      [] OTHER -> TRUE
has_conditional_return(returns, expr) ==
    CASE Len(returns) = 0 -> FALSE
      [] Len(returns) = 1 -> returns[1] # expr.hir_id
      [] OTHER -> TRUE

\* Mutant: automatically_derived impls are not excluded.
get_impl_trait_def_id_with_derived(m) ==
    IF m.parent.node = "Impl" /\ m.parent.of_trait # None
    THEN m.parent.of_trait
    ELSE None
get_impl_trait_def_id(m) ==
    IF m.parent.node = "Impl" /\ ~m.parent.derived /\ m.parent.of_trait # None
    THEN m.parent.of_trait
    ELSE None

\* Mutant: the operator looked for is `==` whatever the method's name.
check_partial_eq_always_eq(cx, m) ==
    LET args == m.inputs
        self_arg == get_ty_def_id(args[1])
        other_arg == get_ty_def_id(args[2])
        trait_def_id == get_impl_trait_def_id(m)
        to_check_op == "Eq"
        expr == m.expr
        is_bad ==
            CASE expr.kind = "Binary" /\ expr.op = to_check_op ->
                    /\ expr.left_ty # NoTy
                    /\ get_ty_def_id(expr.left_ty) # None
                    /\ self_arg = get_ty_def_id(expr.left_ty)
                    /\ expr.right_ty # NoTy
                    /\ get_ty_def_id(expr.right_ty) # None
                    /\ other_arg = get_ty_def_id(expr.right_ty)
              [] expr.kind = "MethodCall" /\ expr.nargs = 1 /\ expr.seg = m.name ->
                    expr.callee_trait # None /\ expr.callee_trait = trait_def_id
              [] OTHER -> FALSE
    IN IF /\ Len(args) = 2
          /\ self_arg # None
          /\ other_arg # None
          /\ self_arg = other_arg
          /\ trait_def_id # None
          /\ trait_def_id = get_trait_def_id(cx.resolved, "PartialEq")
          /\ is_bad
       THEN <<span_error(SpanOf(m), expr.hir_id)>>
       ELSE <<>>

\* The diagnostics check_partial_eq emits (none or one).
check_partial_eq(cx, m) ==
    LET args == m.inputs
        self_arg == get_ty_def_id(args[1])
        other_arg == get_ty_def_id(args[2])
        trait_def_id == get_impl_trait_def_id(m)
        to_check_op == IF m.name = "eq" THEN "Eq" ELSE "Ne"
        expr == m.expr
        is_bad ==
            CASE expr.kind = "Binary" /\ expr.op = to_check_op ->
                    /\ expr.left_ty # NoTy
                    /\ get_ty_def_id(expr.left_ty) # None
                    /\ self_arg = get_ty_def_id(expr.left_ty)
                    /\ expr.right_ty # NoTy
                    /\ get_ty_def_id(expr.right_ty) # None
                    /\ other_arg = get_ty_def_id(expr.right_ty)
              [] expr.kind = "MethodCall" /\ expr.nargs = 1 /\ expr.seg = m.name ->
                    expr.callee_trait # None /\ expr.callee_trait = trait_def_id
              [] OTHER -> FALSE
    IN IF /\ Len(args) = 2
          /\ self_arg # None
          /\ other_arg # None
          /\ self_arg = other_arg
          /\ trait_def_id # None
          /\ trait_def_id = get_trait_def_id(cx.resolved, "PartialEq")
          /\ is_bad
       THEN <<span_error(SpanOf(m), expr.hir_id)>>
       ELSE <<>>

\* The diagnostics check_to_string emits (none or one).
check_to_string(cx, m) ==
    LET args == m.inputs
        trait_def_id == m.parent.of_trait
        expr == m.expr
        is_bad ==
            CASE expr.kind = "MethodCall" /\ expr.nargs = 1 /\ expr.seg = m.name ->
                    expr.callee_trait # None /\ expr.callee_trait = trait_def_id
              [] OTHER -> FALSE
    IN IF /\ Len(args) = 1
          /\ m.parent.node = "Impl"
          /\ ~m.parent.derived
          /\ trait_def_id # None
          /\ trait_def_id = get_trait_def_id(cx.resolved, "ToString")
          /\ is_bad
       THEN <<span_error(SpanOf(m), expr.hir_id)>>
       ELSE <<>>

\* Mutant: the type-relative arm has no case for the `Self` alias.
is_default_method_on_current_ty_no_self(callee, implemented_ty_id) ==
    CASE callee.qpath = "Resolved" ->
            /\ callee.nsegs >= 2
            /\ callee.last = "default"
            /\ callee.first_res = implemented_ty_id
      [] callee.qpath = "TypeRelative" ->
            IF callee.last # "default" THEN FALSE
            ELSE get_hir_ty_def_id(callee.ty) = implemented_ty_id
      [] OTHER -> FALSE
is_default_method_on_current_ty(callee, implemented_ty_id) ==
    CASE callee.qpath = "Resolved" ->
            /\ callee.nsegs >= 2
            /\ callee.last = "default"
            /\ callee.first_res = implemented_ty_id
      [] callee.qpath = "TypeRelative" ->
            IF callee.last # "default" THEN FALSE
            ELSE IF callee.ty.kind = "Path" /\ callee.ty.qpath = "Resolved" /\ callee.ty.self_alias
                 THEN TRUE
                 ELSE get_hir_ty_def_id(callee.ty) = implemented_ty_id
      [] OTHER -> FALSE

\* CheckCalls::visit_expr on the i-th call of `calls`; st = [found, diags] is
\* the visitor's found_default_call flag and the diagnostics emitted so far.
ChildrenOf(calls, i) == {j \in 1 .. Len(calls) : calls[j].parent = i}
RECURSIVE visit_expr(_, _, _, _, _, _)
RECURSIVE walk_expr(_, _, _, _, _, _)
\* Mutant: a reported call does not set found_default_call.
visit_expr_flag_not_set(cx, calls, implemented_ty_id, method_span, i, st) ==
    IF st.found THEN st
    ELSE LET walked == walk_expr(cx, calls, implemented_ty_id, method_span,
                                 ChildrenOf(calls, i), st)
             callee == calls[i].callee
         IN IF /\ is_default_method_on_current_ty(callee, implemented_ty_id)
               /\ callee.target_trait # None
               /\ callee.target_trait = get_trait_def_id(cx.resolved, "Default")
            THEN [found |-> FALSE,
                  diags |-> Append(walked.diags, span_error(method_span, CallHirId(i)))]
            ELSE walked
visit_expr(cx, calls, implemented_ty_id, method_span, i, st) ==
    IF st.found THEN st
    ELSE LET walked == walk_expr(cx, calls, implemented_ty_id, method_span,
                                 ChildrenOf(calls, i), st)
             callee == calls[i].callee
         IN IF /\ is_default_method_on_current_ty(callee, implemented_ty_id)
               /\ callee.target_trait # None
               /\ callee.target_trait = get_trait_def_id(cx.resolved, "Default")
            THEN [found |-> TRUE,
                  diags |-> Append(walked.diags, span_error(method_span, CallHirId(i)))]
            ELSE walked
\* walk_expr / walk_body: visit the given calls in source order.
walk_expr(cx, calls, implemented_ty_id, method_span, todo, st) ==
    IF todo = {} THEN st
    ELSE LET i == CHOOSE j \in todo : \A k \in todo : j <= k
         IN walk_expr(cx, calls, implemented_ty_id, method_span, todo \ {i},
                      visit_expr(cx, calls, implemented_ty_id, method_span, i, st))

\* ------------------------------------------------- the pass and its cache
\* FxHashMap<DefId, DefId>: None stands for "no entry".
EmptyMap == [t \in TypeIds |-> None]
is_empty(map) == \A t \in TypeIds : map[t] = None
Get(map, key) == IF key \in TypeIds THEN map[key] ELSE None

\* Mutant: automatically_derived impls are scanned too.
Delegates_with_derived(impl) ==
    /\ impl.ty # None
    /\ impl.has_fn
    /\ Len(impl.returns) = 1
    /\ impl.returns[1].kind = "Call"
    /\ impl.returns[1].target # None
\* One iteration of the scan over the Default impls: whether it inserts the
\* entry (impl.ty, impl.returns[1].target).
Delegates(impl) ==
    /\ impl.ty # None
    /\ ~impl.derived
    /\ impl.has_fn
    /\ Len(impl.returns) = 1
    /\ impl.returns[1].kind = "Call"
    /\ impl.returns[1].target # None
RECURSIVE ScanImpls(_, _, _)
ScanImpls(impls, i, map) ==
    IF i > Len(impls) THEN map
    ELSE ScanImpls(impls, i + 1,
                   IF Delegates(impls[i])
                   THEN [map EXCEPT ![impls[i].ty] = impls[i].returns[1].target]
                   ELSE map)

\* init_default_impl_for_type_if_needed: the map afterwards, and whether the
\* scan over the impls ran.
init_default_impl_for_type_if_needed(map, cx) ==
    IF is_empty(map) /\ get_trait_def_id(cx.resolved, "Default") # None
    THEN [map |-> ScanImpls(cx.default_impls, 1, map), scanned |-> TRUE]
    ELSE [map |-> map, scanned |-> FALSE]

Untouched(map) == [map |-> map, scanned |-> FALSE, looked_up |-> FALSE, diags |-> <<>>]

\* Mutant: the map is read before it is initialised.
check_default_new_stale_lookup(map, cx, m) ==
    IF m.implicit_self THEN Untouched(map)
    ELSE IF get_impl_trait_def_id(m) # None THEN Untouched(map)
    ELSE LET implemented_ty_id == get_hir_ty_def_id(m.parent.self_ty)
             init == init_default_impl_for_type_if_needed(map, cx)
             return_def_id == Get(map, implemented_ty_id)
         IN IF m.parent.node = "Impl" /\ implemented_ty_id # None
            THEN [map |-> init.map, scanned |-> init.scanned, looked_up |-> TRUE,
                  diags |->
                    IF return_def_id # None /\ m.def_id = return_def_id
                    THEN walk_expr(cx, m.calls, implemented_ty_id, SpanOf(m),
                                   ChildrenOf(m.calls, 0),
                                   [found |-> FALSE, diags |-> <<>>]).diags
                    ELSE <<>>]
            ELSE Untouched(map)

\* check_default_new: the map afterwards, whether the scan ran, whether the
\* lookup in the map was reached, and the diagnostics emitted.
check_default_new(map, cx, m) ==
    IF m.implicit_self THEN Untouched(map)
    ELSE IF get_impl_trait_def_id(m) # None THEN Untouched(map)
    ELSE LET implemented_ty_id == get_hir_ty_def_id(m.parent.self_ty)
             init == init_default_impl_for_type_if_needed(map, cx)
             return_def_id == Get(init.map, implemented_ty_id)
         IN IF m.parent.node = "Impl" /\ implemented_ty_id # None
            THEN [map |-> init.map, scanned |-> init.scanned, looked_up |-> TRUE,
                  diags |->
                    IF return_def_id # None /\ m.def_id = return_def_id
                    THEN walk_expr(cx, m.calls, implemented_ty_id, SpanOf(m),
                                   ChildrenOf(m.calls, 0),
                                   [found |-> FALSE, diags |-> <<>>]).diags
                    ELSE <<>>]
            ELSE Untouched(map)

\* LateLintPass::check_fn.
check_fn(map, cx, m) ==
    IF m.kind = "Method" /\ ~has_conditional_return(m.returns, m.expr)
    THEN LET operator ==
                 IF m.name = "eq" \/ m.name = "ne" THEN check_partial_eq(cx, m)
                 ELSE IF m.name = "to_string" THEN check_to_string(cx, m)
                 ELSE <<>>
             factory == check_default_new(map, cx, m)
         IN [factory EXCEPT !.diags = operator \o factory.diags]
    ELSE Untouched(map)

\* ------------------------------------------------------------------ state
VARIABLES
    cx,                     \* the crate as the pass sees it (fixed)
    default_impl_for_type,  \* UnconditionalRecursion.default_impl_for_type
    scans,                  \* times the scan over the Default impls ran
    lookups,                \* times check_default_new reached the map lookup
    cur,                    \* <<m>>: the function check_fn was last called on
    diags,                  \* diagnostics emitted by that call
    emitted,                \* diagnostics emitted so far, per run of the lint
    run,                    \* 1 or 2: which run of the lint is in progress
    visited,                \* two-run driver: functions of the first run, in order
    pos                     \* number of check_fn calls made in this run
vars == <<cx, default_impl_for_type, scans, lookups, cur, diags, emitted, run, visited, pos>>

\* The pass as constructed (derive(Default)), before any check_fn call.
InitPass ==
    /\ default_impl_for_type = EmptyMap
    /\ scans = 0
    /\ lookups = 0
    /\ cur = <<>>
    /\ diags = <<>>
    /\ emitted = <<(<<>>), (<<>>)>>
    /\ run = 1
    /\ visited = <<>>
    /\ pos = 0

\* One call of check_fn on m by the driver.
Visit(m) ==
    LET r == check_fn(default_impl_for_type, cx, m)
    IN /\ default_impl_for_type' = r.map
       /\ scans' = scans + (IF r.scanned THEN 1 ELSE 0)
       /\ lookups' = lookups + (IF r.looked_up THEN 1 ELSE 0)
       /\ cur' = <<m>>
       /\ diags' = r.diags
       /\ emitted' = [emitted EXCEPT ![run] = @ \o r.diags]
       /\ pos' = pos + 1
       /\ UNCHANGED <<cx, run>>

\* Associated functions `fn new() -> Self { Self::default() }` of T and U, and
\* a method with `self`: the functions that precede the one under study.
NewOn(ty, d) ==
    StaticFn(MkParent("Impl", FALSE, None, HirTyOf(ty)), d, <<1>>,
             <<[parent |-> 0, callee |-> SelfDefaultCall]>>)
PrefixFns ==
    {NewOn("T", "T::new"), NewOn("U", "U::make"),
     MkFn("Method", "new", "T::new", TRUE, <<TyT>>, MkParent("Impl", FALSE, None, HirTyOf("T")),
          Plain(<<1>>), <<[parent |-> 0, callee |-> SelfDefaultCall]>>)}

\* ---- Spec: check_fn on any function, after a short prefix of other calls.
Crates ==
    {MkCx(res, impls)
        : res \in {WellKnown, {}},
          impls \in {<<>>, <<DelegatingImpl("T", "T::new"), DelegatingImpl("U", "U::make")>>}}
Init == cx \in Crates /\ InitPass
CheckFn ==
    /\ pos < MaxFns
    /\ \E m \in (IF pos + 1 = MaxFns THEN Fns ELSE PrefixFns) : Visit(m)
    /\ UNCHANGED visited
Next == CheckFn
Spec == Init /\ [][Next]_vars

\* ------------------------------------------------------------ properties
Checked == cur # <<>>
M == cur[1]
\* The single exit point's expression, when the body has exactly one.
SoleExit(m) ==
    IF m.returns[1] = m.expr.hir_id THEN m.expr
    ELSE [m.other_exit EXCEPT !.hir_id = m.returns[1]]
\* The gate of check_fn lets the body through.
SoleExitIsCandidate(m) == m.returns = <<m.expr.hir_id>>
\* Findings by classifier: the operator classifiers note the candidate
\* expression, the factory scan notes a call of the body.
OperatorFindings == {i \in 1 .. Len(diags) : diags[i].note \in HirIds}
FactoryFindings == {i \in 1 .. Len(diags) : diags[i].note \notin HirIds}

\* C1: a function whose body has two or more exit points gets no diagnostic,
\* from no classifier, whatever the exits are.
C1_MultiExitNeverReported ==
    (Checked /\ Len(M.returns) >= 2) => diags = <<>>
\* A hand-written PartialEq::eq on T whose tail is `self == other` and that
\* has a second exit point was checked, and nothing was reported.
C1_Witness ==
    /\ Checked /\ Len(M.returns) >= 2 /\ diags = <<>>
    /\ M.name = "eq" /\ get_impl_trait_def_id(M) = "PartialEq" /\ "PartialEq" \in cx.resolved
    /\ M.inputs = <<TyT, TyT>>
    /\ \E i \in 1 .. Len(M.returns) : M.returns[i] = M.expr.hir_id
    /\ M.expr.kind = "Binary" /\ M.expr.op = "Eq"
    /\ M.expr.left_ty = TyT /\ M.expr.right_ty = TyT

\* C2 as stated: a body without exit points is gated like a body with several,
\* so nothing is reported for it.
C2_ZeroExitNeverReported ==
    (Checked /\ Len(M.returns) = 0) => diags = <<>>
\* C2 amended: a diagnostic is only emitted for a body with no exit point or
\* with exactly one exit point that is the candidate expression.
C2_ReportedOnlyThroughGate ==
    (Checked /\ diags # <<>>) => (M.returns = <<>> \/ SoleExitIsCandidate(M))
\* A static function without exit points was reported by the factory scan.
C2_Witness ==
    /\ Checked /\ M.returns = <<>> /\ diags # <<>>
    /\ FactoryFindings = 1 .. Len(diags)

\* The case C3 is about: a hand-written PartialEq method eq/ne on T (both
\* inputs of type T) with one exit point, a comparison of two T operands.
EqOnT(m) ==
    /\ m.kind = "Method" /\ m.name \in {"eq", "ne"}
    /\ m.parent.node = "Impl" /\ ~m.parent.derived /\ m.parent.of_trait = "PartialEq"
    /\ "PartialEq" \in cx.resolved
    /\ Len(m.inputs) = 2
    /\ get_ty_def_id(m.inputs[1]) = "T" /\ get_ty_def_id(m.inputs[2]) = "T"
    /\ Len(m.returns) = 1
    /\ SoleExit(m).kind = "Binary"
    /\ SoleExit(m).left_ty # NoTy /\ get_ty_def_id(SoleExit(m).left_ty) = "T"
    /\ SoleExit(m).right_ty # NoTy /\ get_ty_def_id(SoleExit(m).right_ty) = "T"
OperatorMatchesName(m) ==
    \/ m.name = "eq" /\ SoleExit(m).op = "Eq"
    \/ m.name = "ne" /\ SoleExit(m).op = "Ne"
ExactlyTheFinding(m, note) == diags = <<[primary |-> SpanOf(m), note |-> note]>>
\* C3 as stated: such a method gets exactly one diagnostic (method span,
\* comparison span) if the operator matches its name, and none otherwise.
C3_EqFiresIffOperatorMatches ==
    (Checked /\ EqOnT(M)) =>
        IF OperatorMatchesName(M) THEN ExactlyTheFinding(M, M.returns[1]) ELSE diags = <<>>
\* C3 amended: the same, for a sole exit point that is the candidate (tail)
\* expression of the body.
C3_EqTailFiresIffOperatorMatches ==
    (Checked /\ EqOnT(M) /\ SoleExitIsCandidate(M)) =>
        IF OperatorMatchesName(M) THEN ExactlyTheFinding(M, M.expr.hir_id) ELSE diags = <<>>
\* `self != other` as the tail of a hand-written ne was reported.
C3_Witness ==
    /\ Checked /\ EqOnT(M) /\ SoleExitIsCandidate(M)
    /\ M.name = "ne" /\ M.expr.op = "Ne"
    /\ ExactlyTheFinding(M, M.expr.hir_id)

\* The case C4 is about: a hand-written ToString::to_string (receiver only)
\* whose single exit point, the tail, is a method call named to_string.
ToStringOnT(m) ==
    /\ m.kind = "Method" /\ m.name = "to_string"
    /\ m.parent.node = "Impl" /\ ~m.parent.derived /\ m.parent.of_trait = "ToString"
    /\ "ToString" \in cx.resolved
    /\ Len(m.inputs) = 1
    /\ SoleExitIsCandidate(m)
    /\ m.expr.kind = "MethodCall" /\ m.expr.seg = "to_string"
\* C4 as stated: `self.to_string()` (no argument) resolving to ToString gets
\* exactly one diagnostic; a to_string of another trait or type gets none.
C4_ToStringFires ==
    (Checked /\ ToStringOnT(M)) =>
        IF M.expr.nargs = 0 /\ M.expr.callee_trait = "ToString"
        THEN ExactlyTheFinding(M, M.expr.hir_id)
        ELSE M.expr.callee_trait # "ToString" => diags = <<>>

\* The case C5 is about: a static function m of an inherent impl of a type,
\* the type's only Default impl is hand-written with the single exit `m()`,
\* and m's body calls the type's `default` back through a path on the type or
\* on Self.
ImplementedTy(m) == get_hir_ty_def_id(m.parent.self_ty)
CallsDefaultOf(callee, ty) ==
    /\ callee.target_trait = "Default"
    /\ callee.last = "default"
    /\ \/ callee.qpath = "TypeRelative" /\ (callee.ty = HirSelf \/ callee.ty = HirTyOf(ty))
       \/ callee.qpath = "Resolved" /\ callee.nsegs >= 2 /\ callee.first_res = ty
BackCalls(m) == {i \in 1 .. Len(m.calls) : CallsDefaultOf(m.calls[i].callee, ImplementedTy(m))}
DefaultDelegatesTo(ty, f) ==
    /\ "Default" \in cx.resolved
    /\ \E i \in 1 .. Len(cx.default_impls) :
          /\ cx.default_impls[i] = MkImpl(ty, FALSE, TRUE, <<CallTo(f)>>)
          /\ \A j \in 1 .. Len(cx.default_impls) : cx.default_impls[j].ty = ty => j = i
FactoryCase(m) ==
    /\ m.kind = "Method" /\ ~m.implicit_self
    /\ m.parent.node = "Impl" /\ m.parent.of_trait = None
    /\ ImplementedTy(m) \in TypeIds
    /\ DefaultDelegatesTo(ImplementedTy(m), m.def_id)
    /\ BackCalls(m) # {}
FindingsPointAtBackCalls(m) ==
    \A i \in 1 .. Len(diags) :
        /\ diags[i].primary = SpanOf(m)
        /\ \E c \in BackCalls(m) : diags[i].note = CallHirId(c)
\* C5 as stated: for every body of such a function, exactly one diagnostic,
\* on the function, noting the back-call.
C5_FactoryFiresForEveryBody ==
    (Checked /\ FactoryCase(M)) => (Len(diags) = 1 /\ FindingsPointAtBackCalls(M))
\* C5 amended: when the body passes the gate (no exit point, or one exit point
\* that is the candidate expression) there is exactly one diagnostic, on the
\* function, noting a back-call; when it does not pass, there is none.
C5_FactoryFiresThroughGate ==
    (Checked /\ FactoryCase(M)) =>
        IF M.returns = <<>> \/ SoleExitIsCandidate(M)
        THEN Len(diags) = 1 /\ FindingsPointAtBackCalls(M)
        ELSE diags = <<>>
\* The single back-call of a reported function sits inside another call.
C5_Witness ==
    /\ Checked /\ FactoryCase(M) /\ SoleExitIsCandidate(M)
    /\ Len(diags) = 1 /\ FindingsPointAtBackCalls(M)
    /\ \E c \in BackCalls(M) : M.calls[c].parent # 0 /\ diags[1].note = CallHirId(c)

\* C6: no function of an automatically_derived implementation of PartialEq,
\* ToString or Default gets a diagnostic.
DerivedWellKnown(m) ==
    m.parent.node = "Impl" /\ m.parent.derived /\ m.parent.of_trait \in WellKnown
C6_DerivedNeverReported ==
    (Checked /\ DerivedWellKnown(M)) => diags = <<>>
\* The static function of a derived Default impl of T passed the gate with a
\* `Self::default()` call in its body while the map held an entry for T.
C6_Witness ==
    /\ Checked /\ DerivedWellKnown(M) /\ M.parent.of_trait = "Default"
    /\ ~M.implicit_self /\ SoleExitIsCandidate(M)
    /\ ImplementedTy(M) = "T" /\ default_impl_for_type["T"] # None
    /\ BackCalls(M) # {}
    /\ diags = <<>>

\* C7: one check_fn call emits at most one diagnostic: at most one operator
\* diagnostic, at most one factory diagnostic, and never both, also when the
\* body holds several calls of the type's `default`.
C7_AtMostOneDiagnostic ==
    Checked =>
        /\ Len(diags) <= 1
        /\ Cardinality(OperatorFindings) <= 1
        /\ Cardinality(FactoryFindings) <= 1
        /\ (OperatorFindings = {} \/ FactoryFindings = {})
\* A body with two calls of the type's `default` got one diagnostic, noting
\* the first of them.
C7_Witness ==
    /\ Checked /\ FactoryCase(M)
    /\ Cardinality(BackCalls(M)) >= 2
    /\ Len(diags) = 1 /\ diags[1].note = CallHirId(1)

\* ---- SpecCrate: the map over any crate, under calls on static functions.
CratesWithImpls ==
    {MkCx(res, impls)
        : res \in {WellKnown, WellKnown \ {"Default"}},
          impls \in SeqsUpTo(DefaultImpls, MaxImpls)}
InitCrate == cx \in CratesWithImpls /\ InitPass
CheckFnInCrate ==
    /\ pos < MaxFns
    /\ \E m \in PrefixFns : Visit(m)
    /\ UNCHANGED visited
NextCrate == CheckFnInCrate
SpecCrate == InitCrate /\ [][NextCrate]_vars

\* C9 as stated: the scan over the Default impls runs at most once in a run,
\* and only a factory check that reaches the map lookup triggers it.
C9_ScanRunsOnce ==
    /\ scans <= 1
    /\ lookups = 0 => scans = 0

\* C10: every entry of the map comes from a hand-written Default impl of the
\* key type whose local `default` body has exactly one exit point, a direct
\* call resolved to the recorded function; and once the scan has run, every
\* such impl has its type in the map, whatever the other impls are.
SingleCallExit(impl, f) ==
    /\ ~impl.derived /\ impl.has_fn
    /\ Len(impl.returns) = 1
    /\ impl.returns[1].kind = "Call" /\ impl.returns[1].target = f
ImplsOf(ty) == {i \in 1 .. Len(cx.default_impls) : cx.default_impls[i].ty = ty}
C10_EntriesFromDelegatingImpls ==
    \A ty \in TypeIds :
        /\ default_impl_for_type[ty] # None =>
              \E i \in ImplsOf(ty) : SingleCallExit(cx.default_impls[i], default_impl_for_type[ty])
        /\ (scans >= 1 /\ \E i \in ImplsOf(ty), f \in CallTargets : SingleCallExit(cx.default_impls[i], f))
              => default_impl_for_type[ty] # None
\* The map holds the entry of the crate's second impl although the first
\* impl, of the same type, fails a condition of the scan.
C10_Witness ==
    /\ Len(cx.default_impls) >= 2
    /\ cx.default_impls[1].ty = "T" /\ cx.default_impls[2].ty = "T"
    /\ \A f \in CallTargets : ~SingleCallExit(cx.default_impls[1], f)
    /\ SingleCallExit(cx.default_impls[2], "T::new")
    /\ default_impl_for_type["T"] = "T::new"

\* ---- SpecTwoRuns: the lint run twice over the same functions in the same
\* order, the second time with the map kept or with a fresh pass.
RunImpls ==
    {DelegatingImpl("T", "T::new"), DelegatingImpl("T", "U::make"),
     DelegatingImpl("U", "U::make"), MkImpl("T", TRUE, TRUE, <<CallTo("T::new")>>)}
RunCrates ==
    {MkCx(res, impls)
        : res \in {WellKnown, WellKnown \ {"Default"}}, impls \in SeqsUpTo(RunImpls, MaxImpls)}
RunFns ==
    PrefixFns
    \cup {StaticFn(MkParent("Impl", FALSE, None, HirTyOf("T")), "T::new", <<1>>, NestedDefaultCalls),
          StaticFn(MkParent("Impl", FALSE, None, HirTyOf("T")), "T::new", <<>>,
                   <<[parent |-> 0, callee |-> SelfDefaultCall]>>),
          MkFn("Method", "eq", "impl_Tr::f", TRUE, <<TyT, TyT>>,
               MkParent("Impl", FALSE, "PartialEq", HirTyOf("T")),
               <<(<<1>>), MkExpr("Binary", "Eq", TyT, TyT, None, 0, None), OtherExpr>>, <<>>)}
InitTwoRuns == cx \in RunCrates /\ InitPass
FirstRun ==
    /\ run = 1
    /\ Len(visited) < MaxFns
    /\ \E m \in RunFns : Visit(m) /\ visited' = Append(visited, m)
StartSecondRun ==
    /\ run = 1
    /\ visited # <<>>
    /\ run' = 2
    /\ pos' = 0
    /\ \E fresh \in BOOLEAN :
          default_impl_for_type' = IF fresh THEN EmptyMap ELSE default_impl_for_type
    /\ cur' = <<>>
    /\ diags' = <<>>
    /\ UNCHANGED <<cx, scans, lookups, emitted, visited>>
SecondRun ==
    /\ run = 2
    /\ pos < Len(visited)
    /\ Visit(visited[pos + 1])
    /\ UNCHANGED visited
NextTwoRuns == FirstRun \/ StartSecondRun \/ SecondRun
SpecTwoRuns == InitTwoRuns /\ [][NextTwoRuns]_vars

\* C8: when the second run has visited every function of the first, it has
\* emitted the same diagnostics in the same order; and at any point of the
\* second run its output is the first run's output for the same functions.
SecondRunDone == run = 2 /\ pos = Len(visited)
C8_SameDiagnostics ==
    /\ run = 2 => /\ Len(emitted[2]) <= Len(emitted[1])
                  /\ emitted[2] = SubSeq(emitted[1], 1, Len(emitted[2]))
    /\ SecondRunDone => emitted[2] = emitted[1]
\* Both runs reported something, and the scan ran in each of them.
C8_Witness ==
    /\ SecondRunDone /\ Len(visited) = MaxFns
    /\ emitted[1] # <<>> /\ emitted[2] = emitted[1]
    /\ scans = 2

====
